---------------------------- MODULE Spec2Model ----------------------------
(***************************************************************************)
(* A model of adjust_for_sun.py: the streaming G-code rewrite engine       *)
(* (parse_g_code), its line lexer, and the offset calculator it calls.     *)
(*                                                                         *)
(* Numbers.  Python floats are modelled in fixed point:                    *)
(*   - a length is an integer number of LU, 1 LU = 1e-4 m, so that         *)
(*     INCH_TO_METER (0.0254 m) is 254 LU;                                 *)
(*   - the text of a number is parsed to tenths (float(vs) * 10);          *)
(*   - a speed is an integer number of LU per 600 s (one tenth of an inch  *)
(*     per minute is 254 LU per 600 s), so that IPM_TO_MPS applied to a    *)
(*     value in tenths is a multiplication by INCH_TO_METER;               *)
(*   - a time in seconds is an exact rational <<num, den>>, den > 0.       *)
(* An optional value (Python None or a value) is <<>> or <<v>>.            *)
(* A character is a one-character string, a line a sequence of them.       *)
(***************************************************************************)
EXTENDS Integers, Sequences, FiniteSets, TLC

VARIABLES g, x, y, f, t, bounds, last_offset, outf, stderr, pc, exc, inf

vars == <<g, x, y, f, t, bounds, last_offset, outf, stderr, pc, exc, inf>>

\* The number of input lines a run reads.
MaxLines == 3

None == <<>>
Some(v) == <<v>>

\* ------------------------------------------------------------ constants
DAY_TO_SEC == 86400
INCH_TO_METER == 254
\* The rapid rate taken as sixty inches per second.
G0_inches_per_second == 60 * 60 * 10 * INCH_TO_METER

\* 60 inches per minute, in LU per 600 s (600 tenths of an inch per minute).
G0_METERS_PER_SECOND == 60 * 10 * INCH_TO_METER
\* 0.40 m in LU.
MAG_HEIGHT_M == 4000
\* main() overrides the wall clock with 14:00.
time_since_midnight_s == 50400

\* ------------------------------------------------------------ numbers
Abs(n) == IF n < 0 THEN -n ELSE n

RECURSIVE Gcd(_, _)
Gcd(a, b) == IF b = 0 THEN a ELSE Gcd(b, a % b)

\* n / d rounded to the nearest integer (d # 0), as a float operation rounds.
RoundDiv(n, d) ==
    LET nn == IF d < 0 THEN -n ELSE n
        dd == Abs(d)
    IN  (2 * nn + dd) \div (2 * dd)

\* The rational n / d in lowest terms with a positive denominator (d # 0).
Rat(n, d) ==
    LET k == Gcd(Abs(n), Abs(d))
        s == IF d < 0 THEN -1 ELSE 1
    IN  <<(s * n) \div k, Abs(d) \div k>>

RatAdd(a, b) ==
    LET k == Gcd(a[2], b[2])
    IN  Rat(a[1] * (b[2] \div k) + b[1] * (a[2] \div k), (a[2] \div k) * b[2])

\* a < b, by whole parts first and then by fractional parts.
RatLess(a, b) ==
    LET fa == a[1] \div a[2]
        fb == b[1] \div b[2]
    IN  \/ fa < fb
        \/ fa = fb /\ (a[1] % a[2]) * b[2] < (b[1] % b[2]) * a[2]

RatLeq(a, b) == ~RatLess(b, a)

\* int(t): truncation toward zero.
Trunc(a) == IF a[1] >= 0 THEN a[1] \div a[2] ELSE -((-a[1]) \div a[2])

\* Largest integer not above a.
Floor(a) == a[1] \div a[2]

RECURSIVE SqrtIter(_, _)
SqrtIter(n, r) ==
    LET s == (r + n \div r) \div 2
    IN  IF s >= r THEN r ELSE SqrtIter(n, s)

\* math.sqrt on a non-negative integer, rounded to the nearest integer.
Sqrt(n) ==
    IF n = 0 THEN 0
    ELSE LET r == SqrtIter(n, n)
         IN  IF n - r * r > r THEN r + 1 ELSE r

Min3(a, b, c) == IF a <= b /\ a <= c THEN a ELSE IF b <= c THEN b ELSE c

Max3(a, b, c) == IF a >= b /\ a >= c THEN a ELSE IF b >= c THEN b ELSE c

\* ------------------------------------------------------------ vectors
add(a, b) == <<a[1] + b[1], a[2] + b[2], a[3] + b[3]>>

subtract(a, b) == <<a[1] - b[1], a[2] - b[2], a[3] - b[3]>>

scalar_multiply(s, a) == [i \in DOMAIN a |-> a[i] * s]

dot(b, c) == b[1] * c[1] + b[2] * c[2] + b[3] * c[3]

get_length(a) == Sqrt(dot(a, a))

\* A unit vector for a, or None if zero.  Only the direction is kept: the
\* one normalized vector the engine uses after the frame is fixed is the v of
\* project, whose result t*v does not depend on the length of v.
normalize(a) == IF get_length(a) = 0 THEN None ELSE Some(a)

\* project(p, v, o, x, y, z): None when the line is parallel to the plane.
\* t = -dot(p - o, z) / dot_vz is kept as the fraction tn / dot_vz, and
\* q and dq are carried multiplied by dot_vz until the last division.
project(p, v, o, bx, by, bz) ==
    LET dot_vz == dot(v, bz)
        tn == -dot(subtract(p, o), bz)
        q == add(scalar_multiply(dot_vz, p), scalar_multiply(tn, v))
        dq == subtract(q, scalar_multiply(dot_vz, o))
    IN  IF dot_vz = 0 THEN None
        ELSE Some(<<RoundDiv(dot(dq, bx), dot_vz), RoundDiv(dot(dq, by), dot_vz)>>)

\* ------------------------------------------------------------ sun and frame
\* The direction from the magnifying glass to the sun through one day, in
\* the board's own basis, the day cut into twelve steps of two hours.  Entry
\* 1 is the direction at the instant the frame is made (straight along the
\* board's z); the trigonometry of get_sun_pos is replaced by this table.
SunTrack ==
    << <<0, 0, 5>>,   <<-3, -1, 4>>,  <<-4, -1, 3>>,  <<-5, -1, 0>>,
       <<-4, -1, -3>>, <<-3, -1, -4>>, <<0, 0, -5>>,   <<3, 1, -4>>,
       <<4, 1, -3>>,  <<5, 1, 0>>,    <<4, 1, 3>>,    <<3, 1, 4>> >>

\* The step of the day a time (a rational number of seconds) falls in.
DayStep(time_s) ==
    (Floor(Rat(time_s[1] * Len(SunTrack), time_s[2] * DAY_TO_SEC))) % Len(SunTrack)

\* The sun as seen from the magnifying glass at a time of day.
get_sun_pos(time_s) ==
    SunTrack[((DayStep(time_s) - DayStep(<<time_since_midnight_s, 1>>))
               % Len(SunTrack)) + 1]

\* mag_pos, board, board_x, board_y, board_z in the board's own basis: the
\* glass at the origin, the board MAG_HEIGHT_M behind it, facing the sun.
get_initial_position ==
    [mag_pos |-> <<0, 0, 0>>,
     board   |-> subtract(<<0, 0, 0>>, scalar_multiply(MAG_HEIGHT_M, <<0, 0, 1>>)),
     board_x |-> <<1, 0, 0>>,
     board_y |-> <<0, 1, 0>>,
     board_z |-> <<0, 0, 1>>]

\* The 2D offset at a time of day, or None.  The sun is never at the glass
\* (no entry of SunTrack is the zero vector), so normalize has a result here.
get_offset(fr, time_s) ==
    LET sun_pos == add(fr.mag_pos, get_sun_pos(time_s))
        mag_to_sun == normalize(subtract(sun_pos, fr.mag_pos))
    IN  project(fr.mag_pos, mag_to_sun[1], fr.board, fr.board_x, fr.board_y, fr.board_z)

\* ------------------------------------------------------------ text
DigitChars == <<"0", "1", "2", "3", "4", "5", "6", "7", "8", "9">>

IsDigit(ch) == \E i \in DOMAIN DigitChars : DigitChars[i] = ch

\* int(ch) for a digit.
DigitVal(ch) == (CHOOSE i \in DOMAIN DigitChars : DigitChars[i] = ch) - 1

\* ch in "0123456789+-."
IsNumberChar(ch) == IsDigit(ch) \/ ch \in {"+", "-", "."}

\* ch.upper(), for the letters the lexer compares against.
Upper(ch) ==
    CASE ch = "g" -> "G"
      [] ch = "x" -> "X"
      [] ch = "y" -> "Y"
      [] ch = "f" -> "F"
      [] OTHER -> ch

IsSpace(ch) == ch \in {" ", "\t", "\n", "\r"}

RECURSIVE LStrip(_)
LStrip(s) == IF s # <<>> /\ IsSpace(Head(s)) THEN LStrip(Tail(s)) ELSE s

RECURSIVE RStrip(_)
RStrip(s) ==
    IF s # <<>> /\ IsSpace(s[Len(s)]) THEN RStrip(SubSeq(s, 1, Len(s) - 1)) ELSE s

\* str.strip()
Strip(s) == RStrip(LStrip(s))

RECURSIVE DigitsVal(_)
DigitsVal(s) ==
    IF s = <<>> THEN 0
    ELSE DigitsVal(SubSeq(s, 1, Len(s) - 1)) * 10 + DigitVal(s[Len(s)])

\* The place of the decimal point in an unsigned number text, or one past
\* its end.
PointAt(body) ==
    IF \E i \in DOMAIN body : body[i] = "."
    THEN CHOOSE i \in DOMAIN body : body[i] = "."
    ELSE Len(body) + 1

\* What float() accepts after the sign: digits with at most one point and
\* at least one digit.
WellFormed(body) ==
    /\ \A i \in DOMAIN body : IsDigit(body[i]) \/ body[i] = "."
    /\ Cardinality({i \in DOMAIN body : body[i] = "."}) <= 1
    /\ \E i \in DOMAIN body : IsDigit(body[i])

\* The value in tenths of a well-formed text with its point at p.  Digits
\* after the first decimal are below the resolution and are dropped.
Magnitude(body, p) ==
    DigitsVal(SubSeq(body, 1, p - 1)) * 10
    + (IF p < Len(body) THEN DigitVal(body[p + 1]) ELSE 0)

Unsigned(body) ==
    IF WellFormed(body) THEN Some(Magnitude(body, PointAt(body))) ELSE None

Negated(v) == IF v = None THEN None ELSE Some(-v[1])

\* float(vs) for a text made of the characters of IsNumberChar: the value in
\* tenths, or None where Python raises ValueError (no digit, a sign that is
\* not the first character, a second point).
float(vs) ==
    IF vs # <<>> /\ vs[1] = "-" THEN Negated(Unsigned(Tail(vs)))
    ELSE IF vs # <<>> /\ vs[1] = "+" THEN Unsigned(Tail(vs))
    ELSE Unsigned(vs)

\* float(vs)*INCH_TO_METER for a value in tenths: LU.
ToMeters(tenths) == RoundDiv(tenths * INCH_TO_METER, 10)

\* float(vs)*IPM_TO_MPS for a value in tenths: LU per 600 s.
ToMetersPerSecond(tenths) == tenths * INCH_TO_METER

\* "%f" % (v / INCH_TO_METER,) and "%.4f": the inches of v LU, as an integer
\* number of 1/scale inch (scale 1000000 for %f), rounded to the nearest.
Fmt(v, scale) ==
    LET q == Abs(v) \div INCH_TO_METER
        r == Abs(v) % INCH_TO_METER
        m == q * scale + RoundDiv(r * scale, INCH_TO_METER)
    IN  IF v < 0 THEN -m ELSE m

\* Return a string of seconds, nicely formatted: <<hours, minutes, seconds>>
\* as "%02d:%02d:%02d" prints them.  Python 2's / on integers rounds down.
printable_seconds(secs) ==
    LET s0 == Trunc(secs)
        m0 == s0 \div 60
        s1 == s0 - m0 * 60
        h == m0 \div 60
        m1 == m0 - h * 60
    IN  <<h, m1, s1>>

\* ------------------------------------------------------------ output
\* What one write puts on outf or stderr.
FeedComment(fv, vs) == [kind |-> "f is now", text |-> vs, nums |-> <<fv>>]

DistComment(dist, ef, op) ==
    [kind |-> "dist", text |-> <<>>, nums |-> <<dist, ef, op[1], op[2]>>]

TimeComment(secs) ==
    [kind |-> "Time is", text |-> <<>>, nums |-> printable_seconds(secs)]

\* A program line: its literal text, and the coordinates written after it
\* (none for a line passed through).
ProgramLine(text, coords) == [kind |-> "line", text |-> text, nums |-> coords]

\* ------------------------------------------------------------ lexer
\* The upper-cased character copied in place of the character read.
Copied_upper(st, ch) ==
    IF st.suppress THEN st.new_line ELSE Append(st.new_line, Upper(ch))

\* if not suppress: new_line += ch
Copied(st, ch) ==
    IF st.suppress THEN st.new_line ELSE Append(st.new_line, ch)

\* The end of an X, Y or F token: the accumulated text is parsed and stored.
EndNumber(st) ==
    LET v == float(st.vs)
    IN  IF v = None THEN [st EXCEPT !.exc = "ValueError"]
        ELSE CASE st.state = "parsing_x" ->
                    [st EXCEPT !.specified_x = Some(ToMeters(v[1])),
                               !.suppress = FALSE, !.state = "None"]
               [] st.state = "parsing_y" ->
                    [st EXCEPT !.specified_y = Some(ToMeters(v[1])),
                               !.suppress = FALSE, !.state = "None"]
               [] st.state = "parsing_f" ->
                    [st EXCEPT !.f = ToMetersPerSecond(v[1]),
                               !.written = Append(@, FeedComment(ToMetersPerSecond(v[1]), st.vs)),
                               !.suppress = FALSE, !.state = "None"]

\* One character through the state machine, before it is copied.
LexStep(st, ch) ==
    LET uch == Upper(ch)
    IN  CASE st.state = "None" ->
               (CASE ch = "(" -> [st EXCEPT !.state = "comment"]
                  [] uch = "G" -> [st EXCEPT !.state = "parsing_g", !.g = Some(0)]
                  [] uch = "X" -> [st EXCEPT !.state = "parsing_x", !.vs = <<>>,
                                             !.suppress = TRUE]
                  [] uch = "Y" -> [st EXCEPT !.state = "parsing_y", !.vs = <<>>,
                                             !.suppress = TRUE]
                  [] uch = "F" -> [st EXCEPT !.state = "parsing_f", !.vs = <<>>]
                  [] OTHER -> st)
          [] st.state = "comment" ->
               IF ch = ")" THEN [st EXCEPT !.state = "None"] ELSE st
          [] st.state = "parsing_g" ->
               IF IsDigit(ch) THEN [st EXCEPT !.g = Some(@[1] * 10 + DigitVal(ch))]
               ELSE [st EXCEPT !.state = "None"]
          [] OTHER ->
               IF IsNumberChar(ch) THEN [st EXCEPT !.vs = Append(@, ch)]
               ELSE EndNumber(st)

\* The body of "for ch in line".
LexChar(st, ch) ==
    LET st1 == LexStep(st, ch)
    IN  IF st1.exc # "" THEN st1 ELSE [st1 EXCEPT !.new_line = Copied(st1, ch)]

RECURSIVE LexFrom(_, _, _)
LexFrom(st, line, i) ==
    IF i > Len(line) \/ st.exc # "" THEN st
    ELSE LexFrom(LexChar(st, line[i]), line, i + 1)

\* One line through the lexer, from the g and f the engine holds.
Lex(line, g0, f0) ==
    LexFrom([state |-> "None", vs |-> <<>>, suppress |-> FALSE,
             specified_x |-> None, specified_y |-> None,
             g |-> g0, f |-> f0, new_line |-> <<>>, written |-> <<>>,
             exc |-> ""], line, 1)

\* ------------------------------------------------------------ input
\* G0 X1.0 Y0.0\n: a rapid move
LineRapid ==
    <<"G", "0", " ", "X", "1", ".", "0", " ", "Y", "0", ".", "0", "\n">>

\* G1 F0.1 X12.0\n: a cut of two hours
LineSlowCut ==
    <<"G", "1", " ", "F", "0", ".", "1", " ", "X", "1", "2", ".", "0", "\n">>

\* G1 F0.1 X36.0\n: a cut of six hours
LineLongCut ==
    <<"G", "1", " ", "F", "0", ".", "1", " ", "X", "3", "6", ".", "0", "\n">>

\* Y1.0\n: a move that gives Y only
LineY ==
    <<"Y", "1", ".", "0", "\n">>

\* g1 x0.0\n: lower-case words
LineLower ==
    <<"g", "1", " ", "x", "0", ".", "0", "\n">>

\* F1.0\n: a feed rate alone
LineFeed ==
    <<"F", "1", ".", "0", "\n">>

\* F-1.0\n: a feed rate with a sign
LineFeedNegative ==
    <<"F", "-", "1", ".", "0", "\n">>

\* F0\n: a feed rate of zero
LineFeedZero ==
    <<"F", "0", "\n">>

\*  M3 (x1 g0) \n: no G, X, Y or F outside the comment
LinePass ==
    <<" ", "M", "3", " ", "(", "x", "1", " ", "g", "0", ")", " ", "\n">>

\* G1X1.0Y2.0\n: words with nothing between them
LineJoined ==
    <<"G", "1", "X", "1", ".", "0", "Y", "2", ".", "0", "\n">>

\* X1.0(G0 X5)\n: a comment right after a number
LineParen ==
    <<"X", "1", ".", "0", "(", "G", "0", " ", "X", "5", ")", "\n">>

\* (x1\n: a comment that is not closed
LineOpen ==
    <<"(", "x", "1", "\n">>

\* X-\n: a number float() rejects
LineBadNumber ==
    <<"X", "-", "\n">>

\* X1.0: a last line without a newline
LineNoNewline ==
    <<"X", "1", ".", "0">>

\* The lines stdin may hold.
Lines ==
    {LineRapid,
     LineSlowCut,
     LineLongCut,
     LineY,
     LineLower,
     LineFeed,
     LineFeedNegative,
     LineFeedZero,
     LinePass,
     LineOpen,
     LineJoined,
     LineParen,
     LineBadNumber,
     LineNoNewline}

\* ------------------------------------------------------------ engine
TypeErrorSubscript == "TypeError: 'NoneType' object has no attribute '__getitem__'"

TypeErrorIterable == "TypeError: 'NoneType' object is not iterable"

\* Every move timed at the rapid rate.
effective_f_rapid(gv, fv) == G0_METERS_PER_SECOND

\* if g == 0: effective_f = G0_METERS_PER_SECOND else: effective_f = f
effective_f(gv, fv) == IF gv = Some(0) THEN G0_METERS_PER_SECOND ELSE fv

\* A zero feed rate taken as a move that costs no time.
op_time_s_guarded(dist, ef) ==
    IF ef = 0 THEN Some(<<0, 1>>) ELSE Some(Rat(600 * dist, ef))

\* dist / effective_f in seconds (a speed is in LU per 600 s), or None where
\* Python raises ZeroDivisionError.
op_time_s(dist, ef) == IF ef = 0 THEN None ELSE Some(Rat(600 * dist, ef))

\* Expand bounds with the new location.
expand_bounds(b, gv, x0, y0, new_x, new_y) ==
    IF gv = Some(1)
    THEN <<Min3(b[1], x0, new_x), Min3(b[2], y0, new_y),
           Max3(b[3], x0, new_x), Max3(b[4], y0, new_y)>>
    ELSE b

\* Reconstruct line with new values: the stripped text, then " X%f" and
\* " Y%f" of the coordinates in inches, then a newline.
reconstruct(new_line, new_x, new_y) ==
    ProgramLine(Strip(new_line), <<Fmt(new_x, 1000000), Fmt(new_y, 1000000)>>)

\* The engine's variables as a record, with what the iteration wrote.
Current(L) ==
    [g |-> L.g, x |-> x, y |-> y, f |-> L.f, t |-> t, bounds |-> bounds,
     last_offset |-> last_offset, out |-> L.written, exc |-> L.exc]

\* The body of "if specified_x is not None or specified_y is not None".
Move(L) ==
    LET new_x0 == IF L.specified_x = None THEN x ELSE L.specified_x[1]
        new_y0 == IF L.specified_y = None THEN y ELSE L.specified_y[1]
        new_time_s == RatAdd(<<time_since_midnight_s, 1>>, t)
        offset == get_offset(get_initial_position, new_time_s)
        new_x == new_x0 - offset[1][1]
        new_y == new_y0 - offset[1][2]
        dist == get_length(subtract(<<x, y, 0>>, <<new_x, new_y, 0>>))
        ef == effective_f(L.g, L.f)
        op == op_time_s(dist, ef)
        new_t == RatAdd(t, op[1])
    IN  IF offset = None
        THEN [Current(L) EXCEPT !.last_offset = offset, !.exc = TypeErrorSubscript]
        ELSE IF op = None
        THEN [Current(L) EXCEPT !.last_offset = offset, !.exc = "ZeroDivisionError"]
        ELSE [g |-> L.g, x |-> new_x, y |-> new_y, f |-> L.f, t |-> new_t,
              bounds |-> expand_bounds(bounds, L.g, x, y, new_x, new_y),
              last_offset |-> offset,
              out |-> L.written \o <<DistComment(dist, ef, op[1]), TimeComment(new_t),
                                     reconstruct(L.new_line, new_x, new_y)>>,
              exc |-> ""]

\* One iteration of "for line in inf.xreadlines()".
Iteration(line) ==
    LET L == Lex(line, g, f)
    IN  IF L.exc # "" THEN Current(L)
        ELSE IF L.specified_x # None \/ L.specified_y # None THEN Move(L)
        ELSE [Current(L) EXCEPT
                !.out = L.written \o <<TimeComment(t), ProgramLine(L.new_line, <<>>)>>]

\* The three writes to stderr after the loop; the third raises when
\* last_offset is None.
Summary ==
    <<[kind |-> "Total running time", text |-> <<>>, nums |-> printable_seconds(t)],
      [kind |-> "Bounds", text |-> <<>>, nums |-> [i \in 1..4 |-> Fmt(bounds[i], 10000)]]>>
    \o (IF last_offset = None THEN <<>>
        ELSE <<[kind |-> "Last offset", text |-> <<>>,
                nums |-> [i \in 1..2 |-> Fmt(last_offset[1][i], 10000)]]>>)

\* ------------------------------------------------------------ state machine
\* outf[i] is what the i-th iteration wrote, inf the lines read so far;
\* stderr holds the summary only (what main and get_initial_position write
\* before the first line is read is left out).
Init ==
    /\ g = None
    /\ x = 0
    /\ y = 0
    /\ f = G0_METERS_PER_SECOND
    /\ t = <<0, 1>>
    /\ bounds = <<999999, 999999, -999999, -999999>>
    /\ last_offset = None
    /\ outf = <<>>
    /\ stderr = <<>>
    /\ pc = "running"
    /\ exc = ""
    /\ inf = <<>>

\* xreadlines() yields a further line only after a line that ends in a newline.
MoreInput ==
    /\ Len(inf) < MaxLines
    /\ IF inf = <<>> THEN TRUE ELSE inf[Len(inf)][Len(inf[Len(inf)])] = "\n"

ReadLine(line) ==
    /\ pc = "running"
    /\ MoreInput
    /\ LET r == Iteration(line)
       IN  /\ g' = r.g
           /\ x' = r.x
           /\ y' = r.y
           /\ f' = r.f
           /\ t' = r.t
           /\ bounds' = r.bounds
           /\ last_offset' = r.last_offset
           /\ outf' = Append(outf, r.out)
           /\ exc' = r.exc
           /\ pc' = IF r.exc = "" THEN "running" ELSE "error"
    /\ inf' = Append(inf, line)
    /\ UNCHANGED stderr

EndOfInput ==
    /\ pc = "running"
    /\ stderr' = Summary
    /\ pc' = IF last_offset = None THEN "error" ELSE "done"
    /\ exc' = IF last_offset = None THEN TypeErrorIterable ELSE ""
    /\ UNCHANGED <<g, x, y, f, t, bounds, last_offset, outf, inf>>

Next ==
    \/ \E line \in Lines : ReadLine(line)
    \/ EndOfInput

Spec == Init /\ [][Next]_vars

\* ------------------------------------------------------------ properties
\* The line read last and what its iteration wrote.
LastLine == inf[Len(inf)]

LastOut == outf[Len(outf)]

\* A line has just been read by this step.
ReadStep == inf' # inf

\* The last iteration, or the summary, raised.
Crashed == pc = "error"

\* The records of one kind among what an iteration wrote.
OfKind(out, kind) == {i \in DOMAIN out : out[i].kind = kind}

\* The lexer's view of a line: the words it recognises do not depend on
\* the g and f the engine holds.
Words(line) == Lex(line, None, 0)

IsMotion(line) ==
    /\ Words(line).exc = ""
    /\ Words(line).specified_x # None \/ Words(line).specified_y # None

\* The X programmed most recently in the lines read, 0 if never given.
RECURSIVE ProgrammedX(_)
ProgrammedX(lines) ==
    IF lines = <<>> THEN 0
    ELSE IF Words(lines[Len(lines)]).specified_x # None
    THEN Words(lines[Len(lines)]).specified_x[1]
    ELSE ProgrammedX(SubSeq(lines, 1, Len(lines) - 1))

RECURSIVE ProgrammedY(_)
ProgrammedY(lines) ==
    IF lines = <<>> THEN 0
    ELSE IF Words(lines[Len(lines)]).specified_y # None
    THEN Words(lines[Len(lines)]).specified_y[1]
    ELSE ProgrammedY(SubSeq(lines, 1, Len(lines) - 1))

\* C1: after every motion line, each coordinate written is P - o: P the
\* coordinate programmed for the axis (on this line, or most recently
\* before it, 0 if never) and o this line's offset -- a carried axis is
\* corrected by this line's offset only.
ClaimC1 ==
    (inf # <<>> /\ ~Crashed /\ IsMotion(LastLine))
    => LastOut[Len(LastOut)].nums =
          <<Fmt(ProgrammedX(inf) - last_offset[1][1], 1000000),
            Fmt(ProgrammedY(inf) - last_offset[1][2], 1000000)>>

\* The iteration of this step moved a nonzero distance at a nonzero
\* effective feed rate.
MovedStep ==
    /\ ReadStep
    /\ \E i \in OfKind(LastOut', "dist") :
          LastOut'[i].nums[1] # 0 /\ LastOut'[i].nums[2] # 0

\* C2: elapsed machine time never decreases from one line to the next, and
\* strictly increases on every move of nonzero distance at a nonzero
\* effective feed rate, whatever feed rate the lexer accepted.
ClaimC2 ==
    [][/\ RatLeq(t, t')
       /\ MovedStep => RatLess(t, t')]_vars

\* The step reads a motion line at an instant for which the offset
\* calculator has no result.
NoOffsetStep ==
    /\ ReadStep
    /\ IsMotion(LastLine')
    /\ get_offset(get_initial_position, RatAdd(<<time_since_midnight_s, 1>>, t)) = None

\* C3: a motion line whose offset is unavailable does not abort the run:
\* the line is corrected with the previous valid offset, which stays the
\* last offset, and the engine goes on.
ClaimC3 ==
    [][NoOffsetStep =>
         /\ pc' = "running"
         /\ last_offset' = last_offset
         /\ last_offset' # None]_vars

\* C4: at end of input the run ends normally, having reported the total
\* time, the bounds and the last offset on the diagnostics channel.
ClaimC4 ==
    [][~ReadStep => (pc' = "done" /\ Len(stderr') = 3)]_vars

\* The step reads a motion line whose effective feed rate is zero.
ZeroFeedStep ==
    /\ ReadStep
    /\ IsMotion(LastLine')
    /\ effective_f(Lex(LastLine', g, f).g, Lex(LastLine', g, f).f) = 0

\* C5: a motion line whose effective feed rate is zero aborts the run at
\* that line: elapsed time, X, Y and the bounds keep their values, no
\* rewritten line is written, and elapsed time is a defined finite number
\* in every state.
TheoremC5 ==
    /\ [](t[2] > 0)
    /\ [][ZeroFeedStep =>
            /\ pc' = "error"
            /\ t' = t /\ x' = x /\ y' = y /\ bounds' = bounds
            /\ OfKind(LastOut', "line") = {}]_vars

\* A run stopped by a division by a zero feed rate.
WitnessC5 == Crashed /\ exc = "ZeroDivisionError" /\ f = 0

\* No G, X, Y or F, in either case, outside a parenthesized comment.
RECURSIVE PlainFrom(_, _, _)
PlainFrom(line, i, in_comment) ==
    IF i > Len(line) THEN TRUE
    ELSE IF in_comment THEN PlainFrom(line, i + 1, line[i] # ")")
    ELSE /\ line[i] \notin {"G", "X", "Y", "F", "g", "x", "y", "f"}
         /\ PlainFrom(line, i + 1, line[i] = "(")

Plain(line) == PlainFrom(line, 1, FALSE)

\* C6: every line with no G, X, Y or F outside a comment is written as one
\* "(Time is ...)" comment followed by the line itself, character for
\* character, and the output follows the order of the input.
TheoremC6 ==
    /\ Len(outf) = Len(inf)
    /\ \A i \in DOMAIN inf :
          Plain(inf[i]) =>
             /\ Len(outf[i]) = 2
             /\ outf[i][1].kind = "Time is"
             /\ outf[i][2] = ProgramLine(inf[i], <<>>)
             /\ (i = Len(inf) => outf[i][1] = TimeComment(t))

\* A plain line read after a move, and another after it.
WitnessC6 ==
    /\ Len(inf) = 3
    /\ ~Crashed
    /\ IsMotion(inf[1])
    /\ inf[2] = LinePass
    /\ inf[3] = LineOpen

\* The step reads a line on which the lexer completed an F word and no X
\* or Y word.
FeedOnlyStep ==
    /\ ReadStep
    /\ Words(LastLine').exc = ""
    /\ Words(LastLine').written # <<>>
    /\ ~IsMotion(LastLine')

\* The step reads a line on which the lexer completed no F word.
NoFeedStep ==
    /\ ReadStep
    /\ Words(LastLine').written = <<>>

\* The feed-rate comment written last by the iteration of this step.
FeedWritten == LastOut'[CHOOSE i \in OfKind(LastOut', "f is now") :
                          \A j \in OfKind(LastOut', "f is now") : j <= i]

RapidFirst ==
    /\ inf = <<LineRapid>>
    /\ last_offset = Some(<<0, 0>>)

\* C8 as stated: the line is written G0 X1.000000 Y0.000000 and the time
\* comment of the line still reads 00:00:00.
ClaimC8 ==
    RapidFirst =>
       /\ LastOut[Len(LastOut)] = ProgramLine(<<"G", "0">>, <<1000000, 0>>)
       /\ \A i \in OfKind(LastOut, "Time is") : LastOut[i].nums = <<0, 0, 0>>

\* C8: the line is written G0 X1.000000 Y0.000000, under a time comment
\* that reads 00:00:01: one inch at the rapid rate of sixty inches per
\* minute takes one second.
TheoremC8 ==
    RapidFirst =>
       /\ LastOut[Len(LastOut)] = ProgramLine(<<"G", "0">>, <<1000000, 0>>)
       /\ OfKind(LastOut, "Time is") # {}
       /\ \A i \in OfKind(LastOut, "Time is") : LastOut[i].nums = <<0, 0, 1>>
       /\ t = <<1, 1>>

WitnessC8 == RapidFirst /\ pc = "running" /\ g = Some(0)

\* C9: the character that ends a G, X, Y or F word is seen again in the
\* neutral state.  In G1X1.0Y2.0 the motion code is 1 and X and Y are both
\* taken; in X1.0(G0 X5) what follows "(" is a comment and changes neither
\* the motion code nor the coordinates.
ClaimC9 ==
    [][/\ (ReadStep /\ LastLine' = LineJoined /\ ~Crashed') =>
            /\ g' = Some(1)
            /\ Words(LineJoined).specified_x = Some(INCH_TO_METER)
            /\ Words(LineJoined).specified_y = Some(2 * INCH_TO_METER)
            /\ x' = INCH_TO_METER - last_offset'[1][1]
            /\ y' = 2 * INCH_TO_METER - last_offset'[1][2]
       /\ (ReadStep /\ LastLine' = LineParen /\ ~Crashed') =>
            /\ g' = g
            /\ x' = INCH_TO_METER - last_offset'[1][1]]_vars

\* The lexer kept part of line i out of the text it copied.
Suppressed(i) == Words(inf[i]).new_line # inf[i]

\* The iteration of line i ran to its end.
Completed(i) == i < Len(inf) \/ ~Crashed \/ stderr # <<>>

\* C10: a line from which the lexer removed an X or Y word is written with
\* its coordinates in canonical form after the text, however the word
\* ended, the end of the input included.
ClaimC10 ==
    \A i \in DOMAIN inf :
       (Completed(i) /\ Suppressed(i)) =>
          /\ outf[i] # <<>>
          /\ outf[i][Len(outf[i])].kind = "line"
          /\ Len(outf[i][Len(outf[i])].nums) = 2

=============================================================================
